---- MODULE Spec2Model ----
(***************************************************************************)
(* Hybrid document retrieval engine of src/ch06: SimpleVectorStore         *)
(* (simple-vector-store.ts), KeywordSearch and HybridSearchEngine          *)
(* (hybrid-search.ts).                                                     *)
(*                                                                         *)
(* Conventions of the model                                                *)
(*  - a string is a sequence of one-character strings;                     *)
(*  - a float is a fixed-point integer counted in units of 1/Scale, and    *)
(*    every division or square root rounds down to that unit, so that      *)
(*    rounding is part of the model (1.0 is Scale);                        *)
(*  - every operation is one action: the handler runs from call to return  *)
(*    and leaves its arguments, outcome and result in lastOp.              *)
(***************************************************************************)
EXTENDS Integers, Sequences, FiniteSets, TLC

\* ---------------------------------------------------------------- bounds
Scale == 100
MaxDocs == 3
MaxK == 2
MaxAttempts == 2
MaxTextLen == 7
MaxChunkSize == 3
MaxChunks == 6

\* ------------------------------------------------------ program constants
KeyLen == 100

Min(a, b) == IF a <= b THEN a ELSE b
Max(a, b) == IF a >= b THEN a ELSE b

\* ---------------------------------------------------------------- inputs
Pad == [i \in 1..KeyLen |-> "p"]

Chunks ==
  { [id |-> "d1", text |-> Pad \o <<"a">>,           meta |-> [type |-> "text"]],
    [id |-> "d2", text |-> Pad \o <<"b">>,           meta |-> [type |-> "markdown"]],
    [id |-> "d3", text |-> <<"A", ".", "a", "b">>,   meta |-> [type |-> "text"]],
    [id |-> "d4", text |-> <<"a", "b", " ", "a", "b">>, meta |-> [type |-> "markdown"]],
    [id |-> "d5", text |-> <<"n", "c">>,             meta |-> [type |-> "text"]] }

Queries ==
  { <<>>, <<"a">>, <<"b">>, <<"A">>, <<"n">>, <<".">>, <<"(">>,
    <<" ", "a">>, <<"a", " ", " ", "b">>, <<"b", " ">> }

\* metadata predicates handed to similaritySearchWithFilter; "none" is the
\* omitted argument
Filters == {"none", "isMarkdown", "isPdf"}

\* vectorWeight values, in units of 1/Scale
Weights == {0, (Scale * 6) \div 10, Scale}

Chunk(id) == CHOOSE c \in Chunks : c.id = id

\* the batches handed to addDocuments
Batches ==
  { <<Chunk("d1"), Chunk("d2")>>, <<Chunk("d3")>>, <<Chunk("d4")>>,
    <<Chunk("d5"), Chunk("d3")>> }

\* ------------------------------------------------- the Embedding Provider
\* A deterministic provider: a two-dimensional vector of character counts.
CountChar(s, c) == Cardinality({i \in 1..Len(s) : s[i] = c})

embedQuery(text) == << CountChar(text, "a") - CountChar(text, "n"), CountChar(text, "b") >>

embedDocuments(texts) == [i \in DOMAIN texts |-> embedQuery(texts[i])]

\* ------------------------------------------------------- cosineSimilarity
\* Math.sqrt in fixed point: the largest r with (r/Scale)^2 <= n, looked for
\* between the integer root of n and the next integer
Sqrt(n) ==
  LET whole == CHOOSE w \in 0..n : w * w <= n /\ (w + 1) * (w + 1) > n
  IN CHOOSE r \in (whole * Scale)..((whole + 1) * Scale) :
       r * r <= n * Scale * Scale /\ (r + 1) * (r + 1) > n * Scale * Scale

\* a / b rounded towards zero, as a symmetric rounding requires
Quotient(a, b) == IF a >= 0 THEN a \div b ELSE -((-a) \div b)

RECURSIVE SumTo(_, _)
SumTo(f, n) == IF n = 0 THEN 0 ELSE f[n] + SumTo(f, n - 1)

\* vectors[i] past the end of the provider's list: undefined. The provider
\* returns no empty vector, so the empty sequence stands for it.
NoVector == <<>>

\* the guard throwing only when the first vector is the longer one
cosineThrowsLonger(vec1, vec2) == Len(vec1) > Len(vec2)

\* the guard of cosineSimilarity: throw new Error("向量维度不匹配"); reading
\* the length of an undefined vector throws a TypeError before it
cosineThrows(vec1, vec2) ==
  \/ vec1 = NoVector
  \/ vec2 = NoVector
  \/ Len(vec1) # Len(vec2)

\* cosineSimilarity taking two vectors for identical when the denominator
\* is 0
cosineSimilarityOne(vec1, vec2) ==
  IF cosineThrows(vec1, vec2) THEN 0
  ELSE LET dotProduct == SumTo([i \in 1..Len(vec1) |-> vec1[i] * vec2[i]], Len(vec1))
           norm1 == SumTo([i \in 1..Len(vec1) |-> vec1[i] * vec1[i]], Len(vec1))
           norm2 == SumTo([i \in 1..Len(vec1) |-> vec2[i] * vec2[i]], Len(vec1))
           denominator == Sqrt(norm1) * Sqrt(norm2)
       IN IF denominator = 0 THEN Scale
          ELSE Quotient(dotProduct * Scale * Scale * Scale, denominator)

\* the value cosineSimilarity returns when it does not throw
cosineSimilarity(vec1, vec2) ==
  IF cosineThrows(vec1, vec2) THEN 0
  ELSE LET dotProduct == SumTo([i \in 1..Len(vec1) |-> vec1[i] * vec2[i]], Len(vec1))
           norm1 == SumTo([i \in 1..Len(vec1) |-> vec1[i] * vec1[i]], Len(vec1))
           norm2 == SumTo([i \in 1..Len(vec1) |-> vec2[i] * vec2[i]], Len(vec1))
           denominator == Sqrt(norm1) * Sqrt(norm2)
       IN IF denominator = 0 THEN 0
          ELSE Quotient(dotProduct * Scale * Scale * Scale, denominator)

\* ------------------------------------------------------------ Array.sort
\* results.sort((a, b) => b.score - a.score): descending, stable
\* InsertDesc with an unstable comparison: equal scores change places
RECURSIVE InsertDescUnstable(_, _)
InsertDescUnstable(sorted, r) ==
  IF sorted = <<>> THEN <<r>>
  ELSE IF Head(sorted).score > r.score
       THEN <<Head(sorted)>> \o InsertDescUnstable(Tail(sorted), r)
       ELSE <<r>> \o sorted

RECURSIVE InsertDesc(_, _)
InsertDesc(sorted, r) ==
  IF sorted = <<>> THEN <<r>>
  ELSE IF Head(sorted).score >= r.score
       THEN <<Head(sorted)>> \o InsertDesc(Tail(sorted), r)
       ELSE <<r>> \o sorted

RECURSIVE SortByScoreDesc(_)
SortByScoreDesc(rs) ==
  IF rs = <<>> THEN <<>>
  ELSE InsertDesc(SortByScoreDesc(SubSeq(rs, 1, Len(rs) - 1)), rs[Len(rs)])

\* Array.slice(0, k)
Slice0(s, k) == SubSeq(s, 1, Min(k, Len(s)))

\* ------------------------------------------------------ SimpleVectorStore
\* provider responses: [ok |-> FALSE] is a rejected promise
ProviderFail == [ok |-> FALSE, vectors |-> <<>>]
ProviderOk(texts) == [ok |-> TRUE, vectors |-> embedDocuments(texts)]

\* a provider that answers with one vector fewer than it was sent texts
ProviderShort(texts) ==
  [ok |-> TRUE, vectors |-> SubSeq(embedDocuments(texts), 1, Len(texts) - 1)]

\* a provider that answers with vectors of another dimension
ProviderWide(texts) ==
  [ok |-> TRUE,
   vectors |-> [i \in 1..Len(texts) |-> Append(embedQuery(texts[i]), CountChar(texts[i], "c"))]]

\* vectors[i]
VectorAt(vectors, i) == IF i <= Len(vectors) THEN vectors[i] ELSE NoVector

\* SimpleVectorStore.addDocuments: the new document list and the outcome
StoreAddDocuments(docs, chunks, response) ==
  IF ~response.ok
  THEN [documents |-> docs, outcome |-> "error"]
  ELSE [documents |->
          docs \o [i \in 1..Len(chunks) |->
                     [id |-> chunks[i].id, text |-> chunks[i].text,
                      vector |-> VectorAt(response.vectors, i),
                      meta |-> chunks[i].meta]],
        outcome |-> "ok"]

\* this.documents.map(doc => ({text, score, meta}))
ScoreDocs(docs, queryVector) ==
  [i \in 1..Len(docs) |->
     [text |-> docs[i].text,
      score |-> cosineSimilarity(queryVector, docs[i].vector),
      meta |-> docs[i].meta]]

AnyCosineThrows(docs, queryVector) ==
  \E i \in 1..Len(docs) : cosineThrows(queryVector, docs[i].vector)

\* similaritySearch with splice(0, k) on the store in place of slice(0, k)
\* on the result list
similaritySearchSplice(docs, queryVector, k) ==
  [documents |-> SubSeq(docs, Min(k, Len(docs)) + 1, Len(docs)),
   outcome |-> "ok",
   result |-> SortByScoreDesc(ScoreDocs(Slice0(docs, k), queryVector))]

\* SimpleVectorStore.similaritySearch, after the query has been embedded
similaritySearch(docs, queryVector, k) ==
  IF AnyCosineThrows(docs, queryVector)
  THEN [documents |-> docs, outcome |-> "error", result |-> <<>>]
  ELSE [documents |-> docs, outcome |-> "ok",
        result |-> Slice0(SortByScoreDesc(ScoreDocs(docs, queryVector)), k)]

\* the caller's predicate over doc.meta
FilterAccepts(filter, meta) ==
  CASE filter = "isMarkdown" -> meta.type = "markdown"
    [] filter = "isPdf" -> meta.type = "pdf"
    [] OTHER -> TRUE

\* Array.filter
RECURSIVE FilterDocs(_, _)
FilterDocs(docs, filter) ==
  IF docs = <<>> THEN <<>>
  ELSE (IF FilterAccepts(filter, Head(docs).meta) THEN <<Head(docs)>> ELSE <<>>)
       \o FilterDocs(Tail(docs), filter)

\* similaritySearchWithFilter with the predicate applied to the top k
\* instead of to the candidates
similaritySearchFilterLast(docs, queryVector, k, filter) ==
  LET top == Slice0(SortByScoreDesc(ScoreDocs(docs, queryVector)), k)
  IN [documents |-> docs, outcome |-> "ok",
      result |-> IF filter # "none" THEN FilterDocs(top, filter) ELSE top]

\* SimpleVectorStore.similaritySearchWithFilter, after the query has been embedded
similaritySearchWithFilter(docs, queryVector, k, filter) ==
  LET filteredDocs == IF filter # "none" THEN FilterDocs(docs, filter) ELSE docs
  IN IF AnyCosineThrows(filteredDocs, queryVector)
     THEN [documents |-> docs, outcome |-> "error", result |-> <<>>]
     ELSE [documents |-> docs, outcome |-> "ok",
           result |-> Slice0(SortByScoreDesc(ScoreDocs(filteredDocs, queryVector)), k)]

\* whether this.documents.find(d => d.text === text) finds a document
HasText(docs, text) == \E i \in 1..Len(docs) : docs[i].text = text

\* the mutual similarity is computed when both documents are found:
\* if (candidateDoc && selectedDoc)
BothFound(docs, candidate, selectedDoc) ==
  HasText(docs, candidate.text) /\ HasText(docs, selectedDoc.text)

\* this.documents.find(d => d.text === text): the first stored document
\* with that text
FindByText(docs, text) == docs[CHOOSE i \in 1..Len(docs) :
                                 /\ docs[i].text = text
                                 /\ \A j \in 1..(i - 1) : docs[j].text # text]

\* whether a cosineSimilarity of the diversity term throws
DiversityThrows(docs, candidate, selected) ==
  \E s \in 1..Len(selected) :
    /\ BothFound(docs, candidate, selected[s])
    /\ cosineThrows(FindByText(docs, candidate.text).vector,
                    FindByText(docs, selected[s].text).vector)

\* maxSimilarity of a candidate: starts at 0, Math.max over selected[1..n]
RECURSIVE MaxSimilarity(_, _, _, _)
MaxSimilarity(docs, candidate, selected, n) ==
  IF n = 0 THEN 0
  ELSE IF ~BothFound(docs, candidate, selected[n])
  THEN MaxSimilarity(docs, candidate, selected, n - 1)
  ELSE Max(MaxSimilarity(docs, candidate, selected, n - 1),
           cosineSimilarity(FindByText(docs, candidate.text).vector,
                            FindByText(docs, selected[n].text).vector))

\* MmrScore with the diversity term added instead of subtracted
MmrScorePlus(docs, candidate, selected, lambda) ==
  lambda * candidate.score
    + (Scale - lambda) * MaxSimilarity(docs, candidate, selected, Len(selected))

\* lambda * relevance - (1 - lambda) * maxSimilarity, in units of 1/Scale^2
\* so that the two products are exact
MmrScore(docs, candidate, selected, lambda) ==
  lambda * candidate.score
    - (Scale - lambda) * MaxSimilarity(docs, candidate, selected, Len(selected))

\* BestIdx with mmrScore >= bestScore: the last of the best candidates
BestIdxLast(docs, selected, remaining, lambda) ==
  CHOOSE i \in 1..Len(remaining) :
    /\ \A j \in 1..Len(remaining) :
         MmrScore(docs, remaining[j], selected, lambda)
           <= MmrScore(docs, remaining[i], selected, lambda)
    /\ \A j \in (i + 1)..Len(remaining) :
         MmrScore(docs, remaining[j], selected, lambda)
           < MmrScore(docs, remaining[i], selected, lambda)

\* the inner for loop: bestScore starts at -Infinity and moves on
\* mmrScore > bestScore only, so bestIdx is the first of the best candidates
BestIdx(docs, selected, remaining, lambda) ==
  CHOOSE i \in 1..Len(remaining) :
    /\ \A j \in 1..Len(remaining) :
         MmrScore(docs, remaining[j], selected, lambda)
           <= MmrScore(docs, remaining[i], selected, lambda)
    /\ \A j \in 1..(i - 1) :
         MmrScore(docs, remaining[j], selected, lambda)
           < MmrScore(docs, remaining[i], selected, lambda)

\* a splice that removes nothing
Splice1Keep(list, idx) == list

\* remaining.splice(idx, 1)
Splice1(list, idx) == SubSeq(list, 1, idx - 1) \o SubSeq(list, idx + 1, Len(list))

\* the while loop of maxMarginalRelevanceSearch: the selected list, and
\* whether a similarity of the diversity term threw on the way
RECURSIVE MmrLoop(_, _, _, _, _)
MmrLoop(docs, selected, remaining, k, lambda) ==
  IF Len(selected) < k /\ Len(remaining) > 0
  THEN IF \E i \in 1..Len(remaining) : DiversityThrows(docs, remaining[i], selected)
       THEN [outcome |-> "error", selected |-> <<>>]
       ELSE LET bestIdx == BestIdx(docs, selected, remaining, lambda)
            IN MmrLoop(docs, Append(selected, remaining[bestIdx]),
                       Splice1(remaining, bestIdx), k, lambda)
  ELSE [outcome |-> "ok", selected |-> selected]

\* maxMarginalRelevanceSearch whose loop splices the selected documents
\* out of the store as well
maxMarginalRelevanceSearchSplice(docs, queryVector, k, lambda) ==
  LET candidates == similaritySearch(docs, queryVector, k * 3)
      loop == MmrLoop(docs, <<>>, candidates.result, k, lambda)
  IN IF candidates.outcome = "error"
     THEN [documents |-> docs, outcome |-> "error", result |-> <<>>]
     ELSE [documents |-> SubSeq(docs, Len(loop.selected) + 1, Len(docs)),
           outcome |-> loop.outcome, result |-> loop.selected]

\* SimpleVectorStore.maxMarginalRelevanceSearch, after the query has been
\* embedded (by similaritySearch, and once more for the unused queryVector)
maxMarginalRelevanceSearch(docs, queryVector, k, lambda) ==
  LET candidates == similaritySearch(docs, queryVector, k * 3)
      loop == MmrLoop(candidates.documents, <<>>, candidates.result, k, lambda)
  IN IF candidates.outcome = "error"
     THEN [documents |-> candidates.documents, outcome |-> "error", result |-> <<>>]
     ELSE [documents |-> candidates.documents, outcome |-> loop.outcome,
           result |-> loop.selected]

\* a clear that keeps the first document
StoreClearButFirst(docs) == Slice0(docs, 1)

\* SimpleVectorStore.clear
StoreClear(docs) == <<>>

\* SimpleVectorStore.getDocumentCount
getDocumentCount(docs) == Len(docs)

\* ------------------------------------------------------------ KeywordSearch
\* String.toLowerCase over the model's alphabet
LowerChar(c) == IF c = "A" THEN "a" ELSE c
toLowerCase(s) == [i \in 1..Len(s) |-> LowerChar(s[i])]

IsWhitespace(c) == c = " "

RECURSIVE SkipWhitespace(_, _)
SkipWhitespace(s, i) ==
  IF i <= Len(s) /\ IsWhitespace(s[i]) THEN SkipWhitespace(s, i + 1) ELSE i

\* String.split(/\s+/): every maximal run of whitespace separates two
\* tokens, so leading or trailing whitespace and "" yield an empty token
RECURSIVE SplitFrom(_, _, _)
SplitFrom(s, i, cur) ==
  IF i > Len(s) THEN <<cur>>
  ELSE IF IsWhitespace(s[i])
       THEN <<cur>> \o SplitFrom(s, SkipWhitespace(s, i), <<>>)
       ELSE SplitFrom(s, i + 1, Append(cur, s[i]))

SplitWhitespace(s) == SplitFrom(s, 1, <<>>)

\* new RegExp(term, "g") over the model's alphabet: "(" opens a group that
\* is never closed, which is a SyntaxError
RegExpThrows(term) == \E i \in 1..Len(term) : term[i] = "("

\* the pattern matches at position p: "." matches any character, any other
\* character matches itself; the empty pattern matches everywhere
RegExpMatchesAt(term, text, p) ==
  /\ p + Len(term) - 1 <= Len(text)
  /\ \A i \in 1..Len(term) : term[i] = "." \/ term[i] = text[p + i - 1]

\* text.match(regex).length for a global regex: leftmost matches, scanned
\* left to right without overlap; an empty match advances by one.
\* GreedyCount walks the match positions from p on; matches of a pattern of
\* at most one character cannot overlap and are all counted.
RECURSIVE GreedyCount(_, _, _)
GreedyCount(positions, len, p) ==
  LET ahead == {q \in positions : q >= p}
  IN IF ahead = {} THEN 0
     ELSE LET q == CHOOSE x \in ahead : \A y \in ahead : x <= y
          IN 1 + GreedyCount(positions, len, q + len)

RegExpMatchCount(term, text) ==
  LET positions == {p \in 1..(Len(text) + 1) : RegExpMatchesAt(term, text, p)}
  IN IF Len(term) <= 1 THEN Cardinality(positions)
     ELSE GreedyCount(positions, Len(term), 1)

\* the TF score of one document: for (const term of queryTerms) ...
RECURSIVE TermScore(_, _)
TermScore(queryTerms, text) ==
  IF queryTerms = <<>> THEN 0
  ELSE RegExpMatchCount(Head(queryTerms), text) + TermScore(Tail(queryTerms), text)

\* results.filter(r => r.score > 0)
RECURSIVE PositiveScores(_)
PositiveScores(rs) ==
  IF rs = <<>> THEN <<>>
  ELSE (IF Head(rs).score > 0 THEN <<Head(rs)>> ELSE <<>>) \o PositiveScores(Tail(rs))

\* KeywordSearch.addDocuments
KeywordAddDocuments(kwDocs, docs) == docs

\* KeywordSearch.search; the RegExp constructor runs inside documents.map,
\* so an invalid term throws only when there is a document to score
KeywordSearch(kwDocs, query, k) ==
  LET queryTerms == SplitWhitespace(toLowerCase(query))
  IN IF kwDocs # <<>> /\ \E t \in 1..Len(queryTerms) : RegExpThrows(queryTerms[t])
     THEN [kwDocuments |-> kwDocs, outcome |-> "error", result |-> <<>>]
     ELSE LET results == [i \in 1..Len(kwDocs) |->
                            [text |-> kwDocs[i].text,
                             score |-> TermScore(queryTerms, toLowerCase(kwDocs[i].text)),
                             meta |-> kwDocs[i].meta]]
          IN [kwDocuments |-> kwDocs, outcome |-> "ok",
              result |-> Slice0(SortByScoreDesc(PositiveScores(results)), k)]

\* ------------------------------------------------------ HybridSearchEngine
\* HybridSearchEngine.addDocuments with the keyword index filled before the
\* vector store is awaited
HybridAddDocumentsKeywordFirst(docs, kwDocs, chunks, response) ==
  LET added == StoreAddDocuments(docs, chunks, response)
  IN [documents |-> added.documents,
      kwDocuments |-> KeywordAddDocuments(kwDocs, chunks),
      outcome |-> added.outcome]

\* HybridSearchEngine.addDocuments: the vector store first, then the
\* keyword index; a rejected vectorStore.addDocuments ends the call
HybridAddDocuments(docs, kwDocs, chunks, response) ==
  LET added == StoreAddDocuments(docs, chunks, response)
  IN IF added.outcome = "error"
     THEN [documents |-> added.documents, kwDocuments |-> kwDocs, outcome |-> "error"]
     ELSE [documents |-> added.documents,
           kwDocuments |-> KeywordAddDocuments(kwDocs, chunks),
           outcome |-> "ok"]

RECURSIVE MaxScore(_)
MaxScore(scores) ==
  IF Len(scores) = 1 THEN scores[1] ELSE Max(Head(scores), MaxScore(Tail(scores)))

RECURSIVE MinScore(_)
MinScore(scores) ==
  IF Len(scores) = 1 THEN scores[1] ELSE Min(Head(scores), MinScore(Tail(scores)))

\* normalizeScores giving 0 to the members of a list of equal scores
normalizeScoresZero(results) ==
  LET scores == [i \in 1..Len(results) |-> results[i].score]
  IN IF scores = <<>> THEN <<>>
     ELSE LET max == MaxScore(scores)
              min == MinScore(scores)
              range == max - min
          IN IF range = 0 THEN [i \in 1..Len(scores) |-> 0]
             ELSE [i \in 1..Len(scores) |-> ((scores[i] - min) * Scale) \div range]

\* normalizeScores; for an empty list Math.max() - Math.min() is -Infinity,
\* not 0, and the final map runs over no element
normalizeScores(results) ==
  LET scores == [i \in 1..Len(results) |-> results[i].score]
  IN IF scores = <<>> THEN <<>>
     ELSE LET max == MaxScore(scores)
              min == MinScore(scores)
              range == max - min
          IN IF range = 0 THEN [i \in 1..Len(scores) |-> Scale]
             ELSE [i \in 1..Len(scores) |-> ((scores[i] - min) * Scale) \div range]

\* const key = result.text.slice(0, 100)
MergeKey(result) == Slice0(result.text, KeyLen)

\* a Map is a sequence of entries in insertion order, each with its key
MapHas(m, key) == \E i \in 1..Len(m) : m[i].key = key
MapIndex(m, key) == CHOOSE i \in 1..Len(m) : m[i].key = key

\* Map.set: a present key keeps its position and gets the new value
MapSet(m, entry) ==
  IF MapHas(m, entry.key)
  THEN [m EXCEPT ![MapIndex(m, entry.key)] = entry]
  ELSE Append(m, entry)

\* a * b for two fixed-point numbers
Times(a, b) == (a * b) \div Scale

\* vectorResults.forEach(...), entries idx..Len
RECURSIVE AddVectorResults(_, _, _, _, _)
AddVectorResults(m, vectorResults, normalized, vectorWeight, idx) ==
  IF idx > Len(vectorResults) THEN m
  ELSE AddVectorResults(
         MapSet(m, [key |-> MergeKey(vectorResults[idx]),
                    text |-> vectorResults[idx].text,
                    score |-> Times(normalized[idx], vectorWeight),
                    sources |-> <<"vector">>,
                    meta |-> vectorResults[idx].meta]),
         vectorResults, normalized, vectorWeight, idx + 1)

\* keywordResults.forEach(...), entries idx..Len
RECURSIVE AddKeywordResults(_, _, _, _, _)
AddKeywordResults(m, keywordResults, normalized, vectorWeight, idx) ==
  IF idx > Len(keywordResults) THEN m
  ELSE LET key == MergeKey(keywordResults[idx])
           contribution == Times(normalized[idx], Scale - vectorWeight)
           next ==
             IF MapHas(m, key)
             THEN [m EXCEPT ![MapIndex(m, key)] =
                     [@ EXCEPT !.score = @ + contribution,
                               !.sources = Append(@, "keyword")]]
             ELSE Append(m, [key |-> key,
                             text |-> keywordResults[idx].text,
                             score |-> contribution,
                             sources |-> <<"keyword">>,
                             meta |-> keywordResults[idx].meta])
       IN AddKeywordResults(next, keywordResults, normalized, vectorWeight, idx + 1)

\* step 4 of hybridSearch: the Map after both forEach loops
CombinedResults(vectorResults, keywordResults, vectorWeight) ==
  AddKeywordResults(
    AddVectorResults(<<>>, vectorResults, normalizeScores(vectorResults), vectorWeight, 1),
    keywordResults, normalizeScores(keywordResults), vectorWeight, 1)

\* step 5 of hybridSearch; source is the list that join("+") writes out
FinalResults(combined, k) ==
  LET top == Slice0(SortByScoreDesc(combined), k)
  IN [i \in 1..Len(top) |->
        [text |-> top[i].text, score |-> top[i].score,
         source |-> top[i].sources, meta |-> top[i].meta]]

\* HybridSearchEngine.hybridSearch, after the query has been embedded; an
\* error of either sub-search leaves hybridSearch as it is, uncaught
hybridSearch(docs, kwDocs, query, queryVector, k, vectorWeight) ==
  LET vector == similaritySearch(docs, queryVector, k * 2)
      keyword == KeywordSearch(kwDocs, query, k * 2)
  IN IF vector.outcome = "error"
     THEN [documents |-> vector.documents, kwDocuments |-> kwDocs,
           outcome |-> "error", result |-> <<>>]
     ELSE IF keyword.outcome = "error"
     THEN [documents |-> vector.documents, kwDocuments |-> keyword.kwDocuments,
           outcome |-> "error", result |-> <<>>]
     ELSE [documents |-> vector.documents, kwDocuments |-> keyword.kwDocuments,
           outcome |-> "ok",
           result |-> FinalResults(
                        CombinedResults(vector.result, keyword.result, vectorWeight), k)]

\* ---------------------------------------------------------- splitIntoChunks
\* String.slice(start, end): a negative index counts from the end of the
\* text, and both are clipped to the text
SliceIndex(len, idx) == IF idx < 0 THEN Max(len + idx, 0) ELSE Min(idx, len)

JsSlice(text, start, end) ==
  SubSeq(text, SliceIndex(Len(text), start) + 1, SliceIndex(Len(text), end))

\* the next start index when the overlap is forgotten
NextStartNoOverlap(i, chunkSize, overlap) == i + chunkSize

\* i += chunkSize - overlap
NextStart(i, chunkSize, overlap) == i + chunkSize - overlap

\* -------------------------------------------------- EnterpriseSearchEngine
\* makeChunks(this.getSampleDocuments(), 600, 80): the chunks of the sample
\* documents doc-0, doc-1; their meta carries neither an id nor a fileName
SampleChunks ==
  << [id |-> "doc-0#0", text |-> <<"a", "b", " ", "c">>, meta |-> [type |-> "text"]],
     [id |-> "doc-1#0", text |-> <<"n", "c">>, meta |-> [type |-> "text"]] >>

\* chunks.forEach(chunk => this.documentIndex.set(chunk.id, chunk)), from idx on
RECURSIVE IndexChunks(_, _, _)
IndexChunks(index, chunks, idx) ==
  IF idx > Len(chunks) THEN index
  ELSE IndexChunks(MapSet(index, [key |-> chunks[idx].id, value |-> chunks[idx]]),
                   chunks, idx + 1)

\* EnterpriseSearchEngine.initialize: the hybrid engine is filled first, then
\* the RAG engine's store, then the index; a rejected await ends the call
\* with what was committed before it
EnterpriseInitialize(docs, kwDocs, ragDocs, index, hybridResponse, ragResponse) ==
  LET hybrid == HybridAddDocuments(docs, kwDocs, SampleChunks, hybridResponse)
      rag == StoreAddDocuments(ragDocs, SampleChunks, ragResponse)
  IN IF hybrid.outcome = "error"
     THEN [documents |-> hybrid.documents, kwDocuments |-> hybrid.kwDocuments,
           ragDocuments |-> ragDocs, documentIndex |-> index, outcome |-> "error"]
     ELSE IF rag.outcome = "error"
     THEN [documents |-> hybrid.documents, kwDocuments |-> hybrid.kwDocuments,
           ragDocuments |-> rag.documents, documentIndex |-> index, outcome |-> "error"]
     ELSE [documents |-> hybrid.documents, kwDocuments |-> hybrid.kwDocuments,
           ragDocuments |-> rag.documents,
           documentIndex |-> IndexChunks(index, SampleChunks, 1), outcome |-> "ok"]

\* result.meta?.id || "unknown"
MetaId(meta) == IF "id" \in DOMAIN meta THEN meta.id ELSE "unknown"

\* result.meta?.fileName || "未知文档"
\* ("unknown document")
MetaTitle(meta) ==
  IF "fileName" \in DOMAIN meta THEN meta.fileName ELSE "unknown document"

\* results.map(...) of EnterpriseSearchEngine.search, with options.highlight
\* = false
ToSearchResults(results) ==
  [i \in 1..Len(results) |->
     [id |-> MetaId(results[i].meta), title |-> MetaTitle(results[i].meta),
      content |-> results[i].text, score |-> results[i].score,
      source |-> results[i].source, meta |-> results[i].meta]]

\* EnterpriseSearchEngine.search(query, {k, vectorWeight, highlight: false}):
\* a failed hybridSearch is caught and gives the empty list
EnterpriseSearch(docs, kwDocs, query, queryVector, k, vectorWeight, embedOk) ==
  LET hybrid == hybridSearch(docs, kwDocs, query, queryVector, k, vectorWeight)
  IN IF ~embedOk
     THEN [documents |-> docs, kwDocuments |-> kwDocs, outcome |-> "ok", result |-> <<>>]
     ELSE [documents |-> hybrid.documents, kwDocuments |-> hybrid.kwDocuments,
           outcome |-> "ok",
           result |-> IF hybrid.outcome = "error" THEN <<>>
                      ELSE ToSearchResults(hybrid.result)]

\* ------------------------------------------------------------------ state
VARIABLES
  documents,     \* SimpleVectorStore.documents of the engine's vectorStore
  kwDocuments,   \* KeywordSearch.documents of the engine's keywordSearch
  ragDocuments,  \* SimpleVectorStore.documents of the ragEngine's vectorStore
  documentIndex, \* EnterpriseSearchEngine.documentIndex
  suspended,     \* the maxMarginalRelevanceSearch call that awaits its second
                 \* embedQuery: its arguments and pool, and the store it began on
  chunker,       \* the splitIntoChunks call in progress: its arguments, its
                 \* locals i and chunks, and where it stands
  lastOp         \* the caller's view of the last call: name, arguments,
                 \* outcome, result, and whether it repeats the call before it

vars == <<documents, kwDocuments, ragDocuments, documentIndex, suspended, chunker,
         lastOp>>

\* the state of the EnterpriseSearchEngine around its hybridSearch engine
enterprise == <<ragDocuments, documentIndex>>

\* no splitIntoChunks call is in progress
NoSplit == [pc |-> "idle", text |-> <<>>, chunkSize |-> 0, overlap |-> 0, i |-> 0,
            chunks |-> <<>>]

\* no call is suspended
NoCall == [active |-> FALSE, query |-> <<>>, k |-> 0, lambda |-> 0, pool |-> <<>>,
           documents |-> <<>>]

NoOp == [name |-> "init", query |-> <<>>, k |-> 0, filter |-> "none", weight |-> 0,
         lambda |-> 0, chunks |-> <<>>, repeat |-> FALSE, provider |-> "ok",
         outcome |-> "ok", result |-> <<>>]

Init ==
  /\ documents = <<>>
  /\ kwDocuments = <<>>
  /\ ragDocuments = <<>>
  /\ documentIndex = <<>>
  /\ suspended = NoCall
  /\ chunker = NoSplit
  /\ lastOp = NoOp

\* The caller is sequential: it issues a call when it holds no result, or
\* issues the call it has just made once more, and otherwise drops the
\* result it holds (Return).
Idle == lastOp.name \in {"init", "idle", "addDocuments", "clear", "initialize"}

MayCall(call) ==
  \/ Idle
  \/ /\ ~lastOp.repeat
     /\ [lastOp EXCEPT !.provider = "ok", !.outcome = "ok", !.result = <<>>] = call

\* what the caller holds after the call: provider is "fail" when the
\* Embedding Provider rejected the request of this call
Called(call, provider, outcome, result) ==
  [call EXCEPT !.repeat = ~Idle, !.provider = provider, !.outcome = outcome,
               !.result = result]

\* await engine.addDocuments(chunks)
AddDocuments(chunks, response) ==
  LET r == HybridAddDocuments(documents, kwDocuments, chunks, response)
  IN /\ Idle
     /\ Len(documents) + Len(chunks) <= MaxDocs
     /\ documents' = r.documents
     /\ kwDocuments' = r.kwDocuments
     /\ lastOp' = [NoOp EXCEPT !.name = "addDocuments", !.chunks = chunks,
                                !.provider = IF response.ok THEN "ok" ELSE "fail",
                                !.outcome = r.outcome]
     /\ UNCHANGED <<enterprise, suspended, chunker>>

\* await vectorStore.similaritySearch(query, k); a rejected embedQuery
\* rejects the call before the store is read
SimilaritySearch(query, k, embedOk) ==
  LET call == [NoOp EXCEPT !.name = "similaritySearch", !.query = query, !.k = k]
      r == similaritySearch(documents, embedQuery(query), k)
  IN /\ MayCall(call)
     /\ IF embedOk
        THEN /\ lastOp' = Called(call, "ok", r.outcome, r.result)
             /\ documents' = r.documents
        ELSE /\ lastOp' = Called(call, "fail", "error", <<>>)
             /\ documents' = documents
     /\ UNCHANGED <<kwDocuments, enterprise, suspended, chunker>>

\* await vectorStore.similaritySearchWithFilter(query, k, filter)
SimilaritySearchWithFilter(query, k, filter, embedOk) ==
  LET call == [NoOp EXCEPT !.name = "similaritySearchWithFilter", !.query = query,
                           !.k = k, !.filter = filter]
      r == similaritySearchWithFilter(documents, embedQuery(query), k, filter)
  IN /\ MayCall(call)
     /\ IF embedOk
        THEN /\ lastOp' = Called(call, "ok", r.outcome, r.result)
             /\ documents' = r.documents
        ELSE /\ lastOp' = Called(call, "fail", "error", <<>>)
             /\ documents' = documents
     /\ UNCHANGED <<kwDocuments, enterprise, suspended, chunker>>

\* keywordSearch.search(query, k)
KeywordSearchCall(query, k) ==
  LET call == [NoOp EXCEPT !.name = "keywordSearch", !.query = query, !.k = k]
      r == KeywordSearch(kwDocuments, query, k)
  IN /\ MayCall(call)
     /\ lastOp' = Called(call, "ok", r.outcome, r.result)
     /\ kwDocuments' = r.kwDocuments
     /\ UNCHANGED <<documents, enterprise, suspended, chunker>>

\* await engine.hybridSearch(query, k, vectorWeight)
HybridSearch(query, k, vectorWeight, embedOk) ==
  LET call == [NoOp EXCEPT !.name = "hybridSearch", !.query = query, !.k = k,
                           !.weight = vectorWeight]
      r == hybridSearch(documents, kwDocuments, query, embedQuery(query), k, vectorWeight)
  IN /\ MayCall(call)
     /\ IF embedOk
        THEN /\ lastOp' = Called(call, "ok", r.outcome, r.result)
             /\ documents' = r.documents
             /\ kwDocuments' = r.kwDocuments
        ELSE /\ lastOp' = Called(call, "fail", "error", <<>>)
             /\ UNCHANGED <<documents, kwDocuments>>
     /\ UNCHANGED <<enterprise, suspended, chunker>>

\* await vectorStore.maxMarginalRelevanceSearch(query, k, lambda); embedOk
\* is FALSE when the provider rejects one of the two embedQuery requests
MaxMarginalRelevanceSearch(query, k, lambda, embedOk) ==
  LET call == [NoOp EXCEPT !.name = "maxMarginalRelevanceSearch", !.query = query,
                           !.k = k, !.lambda = lambda]
      r == maxMarginalRelevanceSearch(documents, embedQuery(query), k, lambda)
  IN /\ MayCall(call)
     /\ IF embedOk
        THEN /\ lastOp' = Called(call, "ok", r.outcome, r.result)
             /\ documents' = r.documents
        ELSE /\ lastOp' = Called(call, "fail", "error", <<>>)
             /\ documents' = documents
     /\ UNCHANGED <<kwDocuments, enterprise, suspended, chunker>>

\* vectorStore.clear()
Clear ==
  /\ Idle
  /\ documents # <<>>
  /\ documents' = StoreClear(documents)
  /\ lastOp' = [NoOp EXCEPT !.name = "clear"]
  /\ UNCHANGED <<kwDocuments, enterprise, suspended, chunker>>

\* the caller drops the result it holds
Return ==
  /\ ~Idle
  /\ lastOp' = [NoOp EXCEPT !.name = "idle"]
  /\ UNCHANGED <<documents, kwDocuments, enterprise, suspended, chunker>>

Next ==
  \/ \E chunks \in Batches :
        \E response \in {ProviderFail, ProviderOk([i \in 1..Len(chunks) |-> chunks[i].text])} :
          AddDocuments(chunks, response)
  \/ \E query \in Queries, k \in 0..MaxK, embedOk \in BOOLEAN :
        SimilaritySearch(query, k, embedOk)
  \/ \E query \in Queries, k \in 0..MaxK, filter \in Filters, embedOk \in BOOLEAN :
        SimilaritySearchWithFilter(query, k, filter, embedOk)
  \/ \E query \in Queries, k \in 0..MaxK :
        KeywordSearchCall(query, k)
  \/ \E query \in Queries, k \in 0..MaxK, vectorWeight \in Weights, embedOk \in BOOLEAN :
        HybridSearch(query, k, vectorWeight, embedOk)
  \/ Return

Spec == Init /\ [][Next]_vars

\* ------------------------------------------- the vector store with its
\* diversity search and clear(), next to the engine's searches
FewQueries == {<<"a">>, <<"n">>, <<"a", " ", " ", "b">>}
Lambdas == {Scale \div 10, Scale \div 2, Scale}

NextStore ==
  \/ \E chunks \in Batches :
        \E response \in {ProviderFail, ProviderOk([i \in 1..Len(chunks) |-> chunks[i].text])} :
          AddDocuments(chunks, response)
  \/ \E query \in FewQueries, k \in 0..MaxK, embedOk \in BOOLEAN :
        SimilaritySearch(query, k, embedOk)
  \/ \E query \in FewQueries, k \in 0..MaxK, embedOk \in BOOLEAN :
        SimilaritySearchWithFilter(query, k, "isMarkdown", embedOk)
  \/ \E query \in FewQueries, k \in 0..MaxK, lambda \in Lambdas, embedOk \in BOOLEAN :
        MaxMarginalRelevanceSearch(query, k, lambda, embedOk)
  \/ \E query \in FewQueries, k \in 0..MaxK :
        KeywordSearchCall(query, k)
  \/ \E query \in FewQueries, k \in 0..MaxK, embedOk \in BOOLEAN :
        HybridSearch(query, k, (Scale * 6) \div 10, embedOk)
  \/ Clear
  \/ Return

SpecStore == Init /\ [][NextStore]_vars

\* ------------------------------- the vector store behind a provider that
\* may answer with too few vectors or with vectors of another dimension
DimBatches == { <<Chunk("d4")>>, <<Chunk("d5"), Chunk("d3")>> }
DimQueries == {<<"a">>, <<"n">>}

TextsOf(chunks) == [i \in 1..Len(chunks) |-> chunks[i].text]

NextDim ==
  \/ \E chunks \in DimBatches :
        \E response \in {ProviderOk(TextsOf(chunks)), ProviderShort(TextsOf(chunks)),
                         ProviderWide(TextsOf(chunks))} :
          AddDocuments(chunks, response)
  \/ \E query \in DimQueries, k \in 0..MaxK :
        SimilaritySearch(query, k, TRUE)
  \/ \E query \in DimQueries, k \in 0..MaxK :
        SimilaritySearchWithFilter(query, k, "isMarkdown", TRUE)
  \/ \E query \in DimQueries, k \in 0..MaxK :
        MaxMarginalRelevanceSearch(query, k, Scale \div 2, TRUE)
  \/ Return

SpecDim == Init /\ [][NextDim]_vars

\* --------------------- the vector store with a diversity search that is
\* suspended on its second embedQuery while other calls run
\* maxMarginalRelevanceSearch up to `await this.embeddings.embedQuery(query)`:
\* the candidates are fetched from the store as it is now
MmrStart(query, k, lambda) ==
  LET candidates == similaritySearch(documents, embedQuery(query), k * 3)
  IN /\ Idle
     /\ ~suspended.active
     /\ candidates.outcome = "ok"
     /\ suspended' = [active |-> TRUE, query |-> query, k |-> k, lambda |-> lambda,
                      pool |-> candidates.result, documents |-> documents]
     /\ documents' = candidates.documents
     /\ UNCHANGED <<kwDocuments, enterprise, chunker, lastOp>>

\* the rest of the call, when the provider has answered: the selection
\* loop looks the vectors up in the store as it is then
MmrFinish(embedOk) ==
  LET call == [NoOp EXCEPT !.name = "maxMarginalRelevanceSearch",
                           !.query = suspended.query, !.k = suspended.k,
                           !.lambda = suspended.lambda]
      loop == MmrLoop(documents, <<>>, suspended.pool, suspended.k, suspended.lambda)
  IN /\ Idle
     /\ suspended.active
     /\ suspended' = NoCall
     /\ lastOp' = IF embedOk THEN Called(call, "ok", loop.outcome, loop.selected)
                  ELSE Called(call, "fail", "error", <<>>)
     /\ UNCHANGED <<documents, kwDocuments, enterprise, chunker>>

NextConc ==
  \/ \E chunks \in Batches :
        \E response \in {ProviderFail, ProviderOk(TextsOf(chunks))} :
          AddDocuments(chunks, response)
  \/ Clear
  \/ \E query \in FewQueries, k \in 1..MaxK :
        MmrStart(query, k, Scale \div 10)
  \/ \E embedOk \in BOOLEAN :
        MmrFinish(embedOk)
  \/ Return

SpecConc == Init /\ [][NextConc]_vars

\* ------------------------------------------------ the chunker, step by step
AllChars == <<"a", "b", "c", "d", "e", "f", "g", "h", "i", "j">>

\* the texts handed to splitIntoChunks: of every length up to MaxTextLen,
\* of distinct characters or of one character
SplitTexts ==
  {SubSeq(AllChars, 1, n) : n \in 0..Min(MaxTextLen, Len(AllChars))}
    \cup {[i \in 1..n |-> "a"] : n \in 1..MaxTextLen}

others == <<documents, kwDocuments, enterprise, suspended, lastOp>>

\* splitIntoChunks(text, chunkSize, overlap) up to the loop: a text no
\* longer than chunkSize is returned as the single chunk
SplitStart(text, chunkSize, overlap) ==
  /\ chunker.pc = "idle"
  /\ chunker' = IF Len(text) <= chunkSize
                THEN [pc |-> "done", text |-> text, chunkSize |-> chunkSize,
                      overlap |-> overlap, i |-> 0, chunks |-> <<text>>]
                ELSE [pc |-> "loop", text |-> text, chunkSize |-> chunkSize,
                      overlap |-> overlap, i |-> 0, chunks |-> <<>>]
  /\ UNCHANGED others

\* one iteration of while (i < text.length); MaxChunks bounds the chunks
\* of a loop that does not end
SplitStep ==
  /\ chunker.pc = "loop"
  /\ chunker.i < Len(chunker.text)
  /\ Len(chunker.chunks) < MaxChunks
  /\ chunker' = [chunker EXCEPT
                   !.chunks = Append(@, JsSlice(chunker.text, chunker.i,
                                                chunker.i + chunker.chunkSize)),
                   !.i = NextStart(@, chunker.chunkSize, chunker.overlap)]
  /\ UNCHANGED others

\* the loop condition fails: return chunks
SplitExit ==
  /\ chunker.pc = "loop"
  /\ ~(chunker.i < Len(chunker.text))
  /\ chunker' = [chunker EXCEPT !.pc = "done"]
  /\ UNCHANGED others

\* the call returns chunks to its caller
SplitReturn ==
  /\ chunker.pc = "done"
  /\ chunker' = [chunker EXCEPT !.pc = "idle"]
  /\ UNCHANGED others

NextChunk ==
  \/ \E text \in SplitTexts, chunkSize \in 1..MaxChunkSize, overlap \in 0..(MaxChunkSize + 1) :
        SplitStart(text, chunkSize, overlap)
  \/ SplitStep
  \/ SplitExit
  \/ SplitReturn

SpecChunk == Init /\ [][NextChunk]_vars

\* ---------------------------- the vector store holding zero-norm vectors
\* a chunk the provider embeds as the zero vector
ZeroChunk == [id |-> "z1", text |-> <<"c">>, meta |-> [type |-> "text"]]

ZeroBatches == { <<ZeroChunk>>, <<ZeroChunk, Chunk("d3")>>, <<Chunk("d4")>> }

\* the queries "" and "c" are embedded as the zero vector
ZeroQueries == { <<>>, <<"a">>, <<"c">> }

NextZero ==
  \/ \E chunks \in ZeroBatches :
        \E response \in {ProviderFail, ProviderOk(TextsOf(chunks))} :
          AddDocuments(chunks, response)
  \/ \E query \in ZeroQueries, k \in 0..MaxK :
        SimilaritySearch(query, k, TRUE)
  \/ \E query \in ZeroQueries, k \in 0..MaxK :
        MaxMarginalRelevanceSearch(query, k, Scale \div 2, TRUE)
  \/ Return

SpecZero == Init /\ [][NextZero]_vars

\* ------------------------------------------------ the EnterpriseSearchEngine
\* await engine.initialize(): the caller calls it until an attempt succeeds;
\* MaxAttempts bounds the attempts that commit something
Initialize(hybridResponse, ragResponse) ==
  LET r == EnterpriseInitialize(documents, kwDocuments, ragDocuments, documentIndex,
                                hybridResponse, ragResponse)
  IN /\ Idle
     /\ documentIndex = <<>>
     /\ Len(documents) < MaxAttempts * Len(SampleChunks)
     /\ documents' = r.documents
     /\ kwDocuments' = r.kwDocuments
     /\ ragDocuments' = r.ragDocuments
     /\ documentIndex' = r.documentIndex
     /\ lastOp' = [NoOp EXCEPT !.name = "initialize", !.chunks = SampleChunks,
                                !.provider = IF ~hybridResponse.ok THEN "fail"
                                             ELSE IF ~ragResponse.ok THEN "failRag"
                                             ELSE "ok",
                                !.outcome = r.outcome]
     /\ UNCHANGED <<suspended, chunker>>

\* await engine.search(query, {k, vectorWeight, highlight: false})
Search(query, k, vectorWeight, embedOk) ==
  LET call == [NoOp EXCEPT !.name = "search", !.query = query, !.k = k,
                           !.weight = vectorWeight]
      r == EnterpriseSearch(documents, kwDocuments, query, embedQuery(query), k,
                            vectorWeight, embedOk)
  IN /\ MayCall(call)
     /\ lastOp' = Called(call, IF embedOk THEN "ok" ELSE "fail", r.outcome, r.result)
     /\ documents' = r.documents
     /\ kwDocuments' = r.kwDocuments
     /\ UNCHANGED <<enterprise, suspended, chunker>>

NextEnterprise ==
  \/ \E hybridResponse \in {ProviderFail, ProviderOk(TextsOf(SampleChunks))},
        ragResponse \in {ProviderFail, ProviderOk(TextsOf(SampleChunks))} :
        Initialize(hybridResponse, ragResponse)
  \/ \E query \in FewQueries \cup {<<"(">>, <<"c">>}, k \in 0..MaxK,
        vectorWeight \in Weights, embedOk \in BOOLEAN :
        Search(query, k, vectorWeight, embedOk)
  \/ Return

SpecEnterprise == Init /\ [][NextEnterprise]_vars

\* ------------------------------ a store of five near-duplicate chunks and
\* one unrelated chunk, searched for diversity
Rep(c, n) == [i \in 1..n |-> c]

\* the near-duplicates: vectors (1,9), (-1,9), (0,9), (1,10), (-1,10)
DupTexts ==
  << <<"a">> \o Rep("b", 9), <<"n">> \o Rep("b", 9), Rep("b", 9),
     <<"a">> \o Rep("b", 10), <<"n">> \o Rep("b", 10) >>

\* the unrelated chunk: vector (3,0) or (-3,0)
UnrelatedTexts == { Rep("a", 3), Rep("n", 3) }

Reverse(s) == [i \in 1..Len(s) |-> s[Len(s) + 1 - i]]

\* the six texts, the unrelated one after the first n duplicates
DupBatchTexts ==
  { SubSeq(dups, 1, n) \o <<unrelated>> \o SubSeq(dups, n + 1, Len(dups)) :
      dups \in {DupTexts, Reverse(DupTexts)},
      unrelated \in UnrelatedTexts,
      n \in {0, 3, Len(DupTexts)} }

\* the ids makeChunks gives the chunks of one source
DupIds == <<"doc-0#0", "doc-0#1", "doc-0#2", "doc-0#3", "doc-0#4", "doc-0#5">>

\* the six chunks of a batch
DupChunks(texts) ==
  [i \in 1..Len(texts) |->
     [id |-> DupIds[i], text |-> texts[i], meta |-> [type |-> "text"]]]

\* the stores after one successful addDocuments of the six chunks
DupStores ==
  { StoreAddDocuments(<<>>, DupChunks(texts), ProviderOk(texts)).documents :
      texts \in DupBatchTexts }

DupQueries ==
  { <<>>, <<"a">>, <<"b">>, <<"n">>, <<"a", "b">>, <<"n", "b">>, DupTexts[1] }

InitDup ==
  /\ documents \in DupStores
  /\ kwDocuments = <<>>
  /\ ragDocuments = <<>>
  /\ documentIndex = <<>>
  /\ suspended = NoCall
  /\ chunker = NoSplit
  /\ lastOp = NoOp

NextDup ==
  \/ \E query \in DupQueries :
        SimilaritySearch(query, 3, TRUE)
  \/ \E query \in DupQueries :
        MaxMarginalRelevanceSearch(query, 3, Scale \div 10, TRUE)
  \/ Return

SpecDup == InitDup /\ [][NextDup]_vars

\* ----------------------------------------------------------------- claims
\* what a result entry of the vector store shows of document i
Shown(docs, queryVector, i) ==
  [text |-> docs[i].text,
   score |-> cosineSimilarity(queryVector, docs[i].vector),
   meta |-> docs[i].meta]

\* the number of documents of the index set among that come before
\* document i in descending score order, insertion order deciding ties
RankAmong(docs, queryVector, among, i) ==
  Cardinality({j \in among :
     \/ Shown(docs, queryVector, j).score > Shown(docs, queryVector, i).score
     \/ /\ Shown(docs, queryVector, j).score = Shown(docs, queryVector, i).score
        /\ j < i})

\* result is the first k of the documents of among, ranked
IsRankedTopK(result, docs, queryVector, among, k) ==
  /\ Len(result) = Min(k, Cardinality(among))
  /\ \A i \in among :
       RankAmong(docs, queryVector, among, i) < k =>
         result[RankAmong(docs, queryVector, among, i) + 1] = Shown(docs, queryVector, i)

\* C1: when the Embedding Provider rejects the request of addDocuments, the
\* call fails and neither the vector store nor the keyword index changes.
C1_FailedBatchCommitsNothing ==
  [][ (lastOp'.name = "addDocuments" /\ lastOp'.provider = "fail")
        => /\ lastOp'.outcome = "error"
           /\ documents' = documents
           /\ kwDocuments' = kwDocuments ]_vars

\* a batch was rejected on a store that already holds documents
C1_Witness ==
  /\ lastOp.name = "addDocuments"
  /\ lastOp.provider = "fail"
  /\ lastOp.outcome = "error"
  /\ documents # <<>>

\* C2: the Keyword Index holds the same documents as the Vector Store,
\* after one batch or several.
C2_KeywordIndexHoldsStoreDocuments ==
  {kwDocuments[i] : i \in 1..Len(kwDocuments)}
    = {[id |-> documents[i].id, text |-> documents[i].text, meta |-> documents[i].meta] :
         i \in 1..Len(documents)}

\* C3: similaritySearch(q, k) returns min(k, stored) results: the first k of
\* the stored documents in descending cosine score, documents of equal score
\* in insertion order.
C3_SimilaritySearchIsStableTopK ==
  (lastOp.name = "similaritySearch" /\ lastOp.provider = "ok") =>
    /\ lastOp.outcome = "ok"
    /\ IsRankedTopK(lastOp.result, documents, embedQuery(lastOp.query),
                    1..Len(documents), lastOp.k)

\* two different documents of equal score are both returned, and a stored
\* document is cut off by k
C3_Witness ==
  /\ lastOp.name = "similaritySearch"
  /\ lastOp.outcome = "ok"
  /\ lastOp.k = 2
  /\ Len(documents) > 2
  /\ Len(lastOp.result) = 2
  /\ lastOp.result[1].score = lastOp.result[2].score
  /\ lastOp.result[1].text # lastOp.result[2].text

\* C4: a similaritySearch that repeats the call before it, on the store that
\* call left and with the same query vector, returns the same result list.
C4_RepeatedSimilaritySearchAgrees ==
  [][ ( /\ lastOp.name = "similaritySearch" /\ lastOp.outcome = "ok"
        /\ lastOp'.name = "similaritySearch" /\ lastOp'.provider = "ok"
        /\ lastOp'.query = lastOp.query /\ lastOp'.k = lastOp.k )
        => (lastOp'.outcome = "ok" /\ lastOp'.result = lastOp.result) ]_vars

\* a repeated call has returned several scored documents
C4_Witness ==
  /\ lastOp.name = "similaritySearch"
  /\ lastOp.repeat
  /\ lastOp.outcome = "ok"
  /\ Len(lastOp.result) >= 2
  /\ Len(documents) > Len(lastOp.result)

\* C5: similaritySearchWithFilter(q, k, p) never fails on a predicate, returns
\* only documents that satisfy p, and returns the first k of exactly the
\* documents that satisfy p, ranked as similaritySearch ranks them (none when
\* no document satisfies p).
C5_FilteredSearchRanksPassingDocuments ==
  (lastOp.name = "similaritySearchWithFilter" /\ lastOp.provider = "ok"
   /\ lastOp.filter # "none") =>
    LET passing == {i \in 1..Len(documents) :
                      FilterAccepts(lastOp.filter, documents[i].meta)}
    IN /\ lastOp.outcome = "ok"
       /\ \A r \in 1..Len(lastOp.result) :
            FilterAccepts(lastOp.filter, lastOp.result[r].meta)
       /\ IsRankedTopK(lastOp.result, documents, embedQuery(lastOp.query),
                       passing, lastOp.k)

\* a document that fails the predicate outscores the first result
C5_Witness ==
  /\ lastOp.name = "similaritySearchWithFilter"
  /\ lastOp.outcome = "ok"
  /\ lastOp.filter = "isMarkdown"
  /\ lastOp.result # <<>>
  /\ \E i \in 1..Len(documents) :
       /\ ~FilterAccepts(lastOp.filter, documents[i].meta)
       /\ Shown(documents, embedQuery(lastOp.query), i).score > lastOp.result[1].score

\* a predicate that no stored document satisfies gave the empty list
C5_WitnessExcludesAll ==
  /\ lastOp.name = "similaritySearchWithFilter"
  /\ lastOp.outcome = "ok"
  /\ lastOp.filter = "isPdf"
  /\ lastOp.k > 0
  /\ documents # <<>>
  /\ lastOp.result = <<>>

\* the literal (metacharacter-free) reading of a query term
LiteralMatchesAt(term, text, p) ==
  /\ p + Len(term) - 1 <= Len(text)
  /\ \A i \in 1..Len(term) : term[i] = text[p + i - 1]

\* the number of occurrences of term in text, read left to right
LiteralCount(term, text) ==
  IF term = <<>> THEN 0
  ELSE GreedyCount({p \in 1..Len(text) : LiteralMatchesAt(term, text, p)}, Len(term), 1)

RECURSIVE LiteralScore(_, _)
LiteralScore(terms, text) ==
  IF terms = <<>> THEN 0
  ELSE LiteralCount(Head(terms), text) + LiteralScore(Tail(terms), text)

\* the query's tokens as the code splits them
Tokens(query) == SplitWhitespace(toLowerCase(query))

\* the whitespace-separated terms of a query
Terms(query) ==
  {Tokens(query)[t] : t \in {u \in 1..Len(Tokens(query)) : Tokens(query)[u] # <<>>}}

IsMetaChar(c) == c \in {".", "("}
HasMetaChar(query) == \E i \in 1..Len(query) : IsMetaChar(query[i])

\* C6: every query token, metacharacters included, counts by its literal
\* occurrences in the lowercased text, and KeywordSearch.search raises no
\* error. (Stated for queries whose tokens are all non-empty.)
C6_KeywordTermsMatchLiterally ==
  (lastOp.name = "keywordSearch" /\ \A t \in 1..Len(Tokens(lastOp.query)) :
                                      Tokens(lastOp.query)[t] # <<>>) =>
    /\ lastOp.outcome = "ok"
    /\ lastOp.result =
         Slice0(SortByScoreDesc(PositiveScores(
           [i \in 1..Len(kwDocuments) |->
              [text |-> kwDocuments[i].text,
               score |-> LiteralScore(Tokens(lastOp.query), toLowerCase(kwDocuments[i].text)),
               meta |-> kwDocuments[i].meta]])), lastOp.k)

\* C7: for the empty query KeywordSearch.search returns the empty list and
\* raises no error.
C7_EmptyQueryGivesNoKeywordResult ==
  (lastOp.name = "keywordSearch" /\ lastOp.query = <<>>) =>
    (lastOp.outcome = "ok" /\ lastOp.result = <<>>)

\* C8: KeywordSearch.search returns at most k documents in descending score
\* order, and each of them contains at least one whitespace-separated term
\* of the query, also when the query has leading, trailing or repeated
\* whitespace. (Stated for non-empty queries without regex metacharacters.)
C8_KeywordResultsContainATerm ==
  (lastOp.name = "keywordSearch" /\ lastOp.query # <<>> /\ ~HasMetaChar(lastOp.query)) =>
    /\ lastOp.outcome = "ok"
    /\ Len(lastOp.result) <= lastOp.k
    /\ \A r \in 1..Len(lastOp.result) :
         /\ \E term \in Terms(lastOp.query) :
              LiteralCount(term, toLowerCase(lastOp.result[r].text)) > 0
         /\ r > 1 => lastOp.result[r - 1].score >= lastOp.result[r].score

\* the documents a result list shows, without their scores
ShownDocs(results) ==
  [i \in 1..Len(results) |-> [text |-> results[i].text, meta |-> results[i].meta]]

\* C9: hybridSearch gives every distinct candidate document its own entry in
\* the merged list, so that the call returns min(k, candidates) results; no
\* two documents are merged or overwrite each other.
C9_MergeKeepsDistinctDocuments ==
  (lastOp.name = "hybridSearch" /\ lastOp.outcome = "ok") =>
    LET vector == similaritySearch(documents, embedQuery(lastOp.query), lastOp.k * 2).result
        keyword == KeywordSearch(kwDocuments, lastOp.query, lastOp.k * 2).result
        merged == CombinedResults(vector, keyword, lastOp.weight)
        candidates == {ShownDocs(vector)[i] : i \in 1..Len(vector)}
                        \cup {ShownDocs(keyword)[i] : i \in 1..Len(keyword)}
    IN /\ \A c \in candidates :
            \E e \in 1..Len(merged) : merged[e].text = c.text /\ merged[e].meta = c.meta
       /\ Len(lastOp.result) = Min(lastOp.k, Cardinality(candidates))

\* C10: with vector_weight = 1.0, hybridSearch(q, k) returns the documents of
\* similaritySearch(q, k) in the same order.
C10_FullVectorWeightIsSimilarityRanking ==
  (lastOp.name = "hybridSearch" /\ lastOp.outcome = "ok" /\ lastOp.weight = Scale) =>
    ShownDocs(lastOp.result)
      = ShownDocs(similaritySearch(documents, embedQuery(lastOp.query), lastOp.k).result)

\* C11: with vector_weight = 0.0, hybridSearch(q, k) returns the documents of
\* KeywordSearch.search(q, k) in the same order, and so no document without
\* a keyword match.
C11_ZeroVectorWeightIsKeywordRanking ==
  (lastOp.name = "hybridSearch" /\ lastOp.outcome = "ok" /\ lastOp.weight = 0) =>
    ShownDocs(lastOp.result)
      = ShownDocs(KeywordSearch(kwDocuments, lastOp.query, lastOp.k).result)

\* C17: every result of similaritySearch, similaritySearchWithFilter and
\* hybridSearch (vector_weight in [0, 1]) carries a score in [0, 1].
C17_ScoresAreInUnitInterval ==
  (lastOp.name \in {"similaritySearch", "similaritySearchWithFilter", "hybridSearch"}
   /\ lastOp.outcome = "ok") =>
    \A r \in 1..Len(lastOp.result) :
      lastOp.result[r].score >= 0 /\ lastOp.result[r].score <= Scale

\* C19: when exactly one of the two sub-searches of hybridSearch fails,
\* hybridSearch succeeds and returns the ranking of the sub-search that
\* survived.
C19_OneFailedSubSearchFallsBack ==
  lastOp.name = "hybridSearch" =>
    LET vector == similaritySearch(documents, embedQuery(lastOp.query), lastOp.k)
        keyword == KeywordSearch(kwDocuments, lastOp.query, lastOp.k)
        vectorFails == lastOp.provider = "fail" \/ vector.outcome = "error"
        keywordFails == keyword.outcome = "error"
    IN /\ (vectorFails /\ ~keywordFails) =>
            /\ lastOp.outcome = "ok"
            /\ ShownDocs(lastOp.result) = ShownDocs(keyword.result)
       /\ (keywordFails /\ ~vectorFails) =>
            /\ lastOp.outcome = "ok"
            /\ ShownDocs(lastOp.result) = ShownDocs(vector.result)

\* C20: the combined score of a hybridSearch result is that document's own
\* normalized vector score times vector_weight (when the vector list has the
\* document) plus its own normalized keyword score times 1 - vector_weight
\* (when the keyword list has it).
C20_CombinedScoreWeighsOwnScores ==
  (lastOp.name = "hybridSearch" /\ lastOp.outcome = "ok") =>
    LET vector == similaritySearch(documents, embedQuery(lastOp.query), lastOp.k * 2).result
        keyword == KeywordSearch(kwDocuments, lastOp.query, lastOp.k * 2).result
        Own(list, e) == {i \in 1..Len(list) : list[i].text = e.text /\ list[i].meta = e.meta}
        Part(list, e, weight) ==
          IF Own(list, e) = {} THEN 0
          ELSE Times(normalizeScores(list)[CHOOSE i \in Own(list, e) : TRUE], weight)
    IN \A r \in 1..Len(lastOp.result) :
         lastOp.result[r].score
           = Part(vector, lastOp.result[r], lastOp.weight)
               + Part(keyword, lastOp.result[r], Scale - lastOp.weight)

\* C12: maxMarginalRelevanceSearch(q, k, lambda = 1) returns exactly what
\* similaritySearch(q, k) returns: the same documents in the same order with
\* the same scores.
C12_FullLambdaIsSimilaritySearch ==
  (lastOp.name = "maxMarginalRelevanceSearch" /\ lastOp.provider = "ok"
   /\ lastOp.lambda = Scale) =>
    LET plain == similaritySearch(documents, embedQuery(lastOp.query), lastOp.k)
    IN lastOp.outcome = plain.outcome /\ lastOp.result = plain.result

\* with lambda = 1 the search returned two different documents of equal
\* score and left a stored document out
C12_Witness ==
  /\ lastOp.name = "maxMarginalRelevanceSearch"
  /\ lastOp.outcome = "ok"
  /\ lastOp.lambda = Scale
  /\ Len(documents) > 2
  /\ Len(lastOp.result) = 2
  /\ lastOp.result[1].score = lastOp.result[2].score
  /\ lastOp.result[1].text # lastOp.result[2].text

\* the documents addDocuments stores for a batch, given their vectors
Stored(chunks, vectors) ==
  [i \in 1..Len(chunks) |->
     [id |-> chunks[i].id, text |-> chunks[i].text, vector |-> vectors[i],
      meta |-> chunks[i].meta]]

\* C18: a search (similaritySearch, similaritySearchWithFilter,
\* maxMarginalRelevanceSearch, KeywordSearch.search, hybridSearch) leaves the
\* stored document lists as they were; the vector store's list changes only
\* when addDocuments appends a batch to it or clear empties it.
C18_OnlyAddAndClearChangeTheStore ==
  [][ /\ lastOp'.name \in {"similaritySearch", "similaritySearchWithFilter",
                           "maxMarginalRelevanceSearch", "keywordSearch",
                           "hybridSearch"}
        => (documents' = documents /\ kwDocuments' = kwDocuments)
      /\ documents' # documents
        => \/ /\ lastOp'.name = "addDocuments"
              /\ documents' = documents \o
                   Stored(lastOp'.chunks,
                          embedDocuments([i \in 1..Len(lastOp'.chunks) |->
                                            lastOp'.chunks[i].text]))
           \/ /\ lastOp'.name = "clear"
              /\ documents' = <<>> ]_vars

\* a diversity search has selected documents from a store of several and
\* was then called once more
C18_Witness ==
  /\ lastOp.name = "maxMarginalRelevanceSearch"
  /\ lastOp.repeat
  /\ lastOp.outcome = "ok"
  /\ Len(lastOp.result) >= 2
  /\ Len(documents) > Len(lastOp.result)

\* the stored vectors a search meets: all of them, or those of the documents
\* that pass the filter
MetVectors ==
  LET met == IF lastOp.name = "similaritySearchWithFilter"
             THEN FilterDocs(documents, lastOp.filter) ELSE documents
  IN {met[i].vector : i \in 1..Len(met)}

\* C14: when similaritySearch, similaritySearchWithFilter or
\* maxMarginalRelevanceSearch meets a stored vector whose length differs
\* from the query vector's (or that is missing), the call fails with an error
\* and returns no result list; it succeeds when all lengths agree, so no
\* score comes from truncated or padded vectors.
C14_DimensionMismatchFailsTheSearch ==
  (lastOp.name \in {"similaritySearch", "similaritySearchWithFilter",
                    "maxMarginalRelevanceSearch"} /\ lastOp.provider = "ok") =>
    LET mismatch == \E v \in MetVectors :
                      v = NoVector \/ Len(v) # Len(embedQuery(lastOp.query))
    IN /\ mismatch => (lastOp.outcome = "error" /\ lastOp.result = <<>>)
       /\ ~mismatch => lastOp.outcome = "ok"

\* a diversity search failed on a store where the second document's vector
\* is longer than the query vector and the first document's is not
C14_Witness ==
  /\ lastOp.name = "maxMarginalRelevanceSearch"
  /\ lastOp.k > 0
  /\ lastOp.outcome = "error"
  /\ Len(documents) >= 2
  /\ Len(documents[1].vector) = Len(embedQuery(lastOp.query))
  /\ Len(documents[2].vector) > Len(embedQuery(lastOp.query))

\* C15: all stored vectors are present and have the same length, whatever
\* list of vectors the Embedding Provider returned.
C15_StoredVectorsShareOneLength ==
  \A i, j \in 1..Len(documents) :
    /\ documents[i].vector # NoVector
    /\ Len(documents[i].vector) = Len(documents[j].vector)

\* the stored documents that belong to the duplicate cluster
InCluster(text) == \E i \in 1..Len(DupTexts) : DupTexts[i] = text

\* the store is the scenario's: the duplicates are pairwise close to
\* cosine 1, and the other document is close to cosine 0 to each of them
IsDuplicateScenario ==
  /\ Cardinality({i \in 1..Len(documents) : InCluster(documents[i].text)}) = 5
  /\ Len(documents) = 6
  /\ \A i, j \in 1..Len(documents) :
       LET sim == cosineSimilarity(documents[i].vector, documents[j].vector)
       IN IF InCluster(documents[i].text) = InCluster(documents[j].text)
          THEN sim >= (Scale * 95) \div 100
          ELSE sim <= (Scale * 15) \div 100 /\ sim >= -((Scale * 15) \div 100)

\* C13: on a store of five near-duplicates and one unrelated chunk,
\* maxMarginalRelevanceSearch with lambda = 0.1 and k = 3 returns three
\* results of which at most two are from the duplicate cluster, whatever
\* the query.
C13_DiversityLimitsTheDuplicateCluster ==
  (lastOp.name = "maxMarginalRelevanceSearch" /\ IsDuplicateScenario
   /\ lastOp.k = 3 /\ lastOp.lambda = Scale \div 10) =>
    /\ lastOp.outcome = "ok"
    /\ Len(lastOp.result) = 3
    /\ Cardinality({r \in 1..Len(lastOp.result) : InCluster(lastOp.result[r].text)}) <= 2

\* the unrelated chunk was selected second although every duplicate is more
\* relevant to the query than it is
C13_Witness ==
  /\ lastOp.name = "maxMarginalRelevanceSearch"
  /\ IsDuplicateScenario
  /\ lastOp.k = 3
  /\ lastOp.lambda = Scale \div 10
  /\ Len(lastOp.result) = 3
  /\ ~InCluster(lastOp.result[2].text)
  /\ \A i \in 1..Len(documents) :
       InCluster(documents[i].text) =>
         cosineSimilarity(embedQuery(lastOp.query), documents[i].vector)
           > lastOp.result[2].score

\* how many stored documents carry the id
CountId(docs, id) == Cardinality({i \in 1..Len(docs) : docs[i].id = id})

\* C16: when initialize() succeeds after any number of failed attempts,
\* each chunk of the batch is stored exactly once in the vector store and
\* the keyword index of the hybrid engine and in the RAG engine's store.
C16_RetriedIngestionStoresEachChunkOnce ==
  [][ (lastOp'.name = "initialize" /\ lastOp'.outcome = "ok")
        => \A c \in 1..Len(SampleChunks) :
             /\ CountId(documents', SampleChunks[c].id) = 1
             /\ CountId(kwDocuments', SampleChunks[c].id) = 1
             /\ CountId(ragDocuments', SampleChunks[c].id) = 1 ]_vars

\* the two candidate lists of the hybridSearch call the caller holds
VectorCandidates ==
  similaritySearch(documents, embedQuery(lastOp.query), lastOp.k * 2).result
KeywordCandidates ==
  KeywordSearch(kwDocuments, lastOp.query, lastOp.k * 2).result

\* normalized is the min-max scaling of the scores of list
IsMinMaxScaled(list, normalized) ==
  /\ Len(normalized) = Len(list)
  /\ \A i \in 1..Len(list) :
       /\ normalized[i] >= 0 /\ normalized[i] <= Scale
       /\ (\A j \in 1..Len(list) : list[j].score <= list[i].score)
            => normalized[i] = Scale
       /\ ( /\ \A j \in 1..Len(list) : list[j].score >= list[i].score
            /\ \E j \in 1..Len(list) : list[j].score > list[i].score )
            => normalized[i] = 0
       /\ \A j \in 1..Len(list) :
            list[j].score <= list[i].score => normalized[j] <= normalized[i]

\* C21: normalizeScores maps each candidate list of hybridSearch to [0, 1]
\* by min-max scaling: the maximum becomes 1, the minimum 0 (1 when all
\* scores are equal, as in a one-element list), the empty list stays empty,
\* and hybridSearch does not fail on it.
C21_NormalizeScoresIsMinMaxScaling ==
  (lastOp.name = "hybridSearch" /\ lastOp.provider = "ok"
   /\ KeywordSearch(kwDocuments, lastOp.query, lastOp.k * 2).outcome = "ok") =>
    /\ lastOp.outcome = "ok"
    /\ IsMinMaxScaled(VectorCandidates, normalizeScores(VectorCandidates))
    /\ IsMinMaxScaled(KeywordCandidates, normalizeScores(KeywordCandidates))

\* a call whose vector list has different scores, a negative one among
\* them, and whose keyword list is empty
C21_Witness ==
  /\ lastOp.name = "hybridSearch"
  /\ lastOp.outcome = "ok"
  /\ KeywordCandidates = <<>>
  /\ Len(VectorCandidates) >= 2
  /\ \E i, j \in 1..Len(VectorCandidates) :
       VectorCandidates[i].score < 0 /\ VectorCandidates[j].score > 0

\* a call whose keyword list has one member and whose vector list has
\* several members of one score
C21_WitnessEqualScores ==
  /\ lastOp.name = "hybridSearch"
  /\ lastOp.outcome = "ok"
  /\ Len(KeywordCandidates) = 1
  /\ Len(VectorCandidates) >= 2
  /\ \A i \in 1..Len(VectorCandidates) :
       VectorCandidates[i].score = VectorCandidates[1].score

\* the pool of the maxMarginalRelevanceSearch call the caller holds
MmrPool ==
  similaritySearch(documents, embedQuery(lastOp.query), lastOp.k * 3).result

\* the highest cosine similarity between a candidate and the results
\* selected before it, 0 when there is none
HighestSimilarity(candidate, selected) ==
  IF selected = <<>> THEN 0
  ELSE LET sims == [s \in 1..Len(selected) |->
                      cosineSimilarity(FindByText(documents, candidate.text).vector,
                                       FindByText(documents, selected[s].text).vector)]
       IN MaxScore(sims)

\* lambda * relevance - (1 - lambda) * m, in units of 1/Scale^2
RoundValue(candidate, selected) ==
  lastOp.lambda * candidate.score
    - (Scale - lastOp.lambda) * HighestSimilarity(candidate, selected)

\* the position in the pool of a result (the pool's texts are distinct)
PoolIndex(entry) == CHOOSE i \in 1..Len(MmrPool) : MmrPool[i].text = entry.text

\* C22: every round of maxMarginalRelevanceSearch selects the remaining
\* candidate that maximizes lambda * relevance - (1 - lambda) * m, m being the
\* highest cosine similarity between the candidate and the results selected
\* so far (0 when there is none), the earliest of the pool among equals.
C22_EachRoundSelectsTheMaximum ==
  (lastOp.name = "maxMarginalRelevanceSearch" /\ lastOp.outcome = "ok") =>
    \A r \in 1..Len(lastOp.result) :
      LET selected == SubSeq(lastOp.result, 1, r - 1)
          remaining == {i \in 1..Len(MmrPool) :
                          \A s \in 1..(r - 1) : MmrPool[i].text # lastOp.result[s].text}
          best == PoolIndex(lastOp.result[r])
      IN /\ best \in remaining
         /\ \A i \in remaining :
              \/ RoundValue(MmrPool[i], selected) < RoundValue(MmrPool[best], selected)
              \/ /\ RoundValue(MmrPool[i], selected) = RoundValue(MmrPool[best], selected)
                 /\ best <= i

\* how often an entry occurs in a list
Occurrences(list, entry) == Cardinality({i \in 1..Len(list) : list[i] = entry})

\* C23: maxMarginalRelevanceSearch(q, k, lambda) returns exactly
\* min(k, |pool|) results for pool = similaritySearch(q, 3k); every result is
\* an entry of the pool, and no pool entry is selected twice. (The loop runs
\* one round per result, so it ends after at most |pool| rounds.)
C23_SelectsMinOfKAndPool ==
  (lastOp.name = "maxMarginalRelevanceSearch" /\ lastOp.provider = "ok") =>
    /\ lastOp.outcome = "ok"
    /\ Len(lastOp.result) = Min(lastOp.k, Len(MmrPool))
    /\ \A r \in 1..Len(lastOp.result) :
         Occurrences(lastOp.result, lastOp.result[r])
           <= Occurrences(MmrPool, lastOp.result[r])
         /\ Occurrences(MmrPool, lastOp.result[r]) >= 1

\* the pool is larger than k, and the selection is not the head of the pool
C23_Witness ==
  /\ lastOp.name = "maxMarginalRelevanceSearch"
  /\ lastOp.outcome = "ok"
  /\ lastOp.k = 2
  /\ Len(MmrPool) > 2
  /\ Len(lastOp.result) = 2
  /\ lastOp.result # SubSeq(MmrPool, 1, 2)

\* the pool is exhausted before k results are selected
C23_WitnessSmallPool ==
  /\ lastOp.name = "maxMarginalRelevanceSearch"
  /\ lastOp.outcome = "ok"
  /\ lastOp.k = 2
  /\ Len(MmrPool) = 1
  /\ lastOp.result = MmrPool

IsZeroVector(vec) == \A i \in 1..Len(vec) : vec[i] = 0

\* C24: cosineSimilarity returns 0 when one of its two equal-length vectors
\* is all-zero; similaritySearch over a store holding a zero vector, or with
\* a zero query vector, succeeds and gives score 0 to every document whose
\* similarity involves a zero vector.
C24_ZeroNormGivesScoreZero ==
  (lastOp.name = "similaritySearch" /\ lastOp.provider = "ok") =>
    /\ lastOp.outcome = "ok"
    /\ Len(lastOp.result) = Min(lastOp.k, Len(documents))
    /\ \A r \in 1..Len(lastOp.result) :
         ( \/ IsZeroVector(embedQuery(lastOp.query))
           \/ IsZeroVector(FindByText(documents, lastOp.result[r].text).vector) )
           => lastOp.result[r].score = 0

\* a search with a non-zero query vector returned a stored zero vector next
\* to a document of another score
C24_Witness ==
  /\ lastOp.name = "similaritySearch"
  /\ lastOp.outcome = "ok"
  /\ ~IsZeroVector(embedQuery(lastOp.query))
  /\ \E r, q \in 1..Len(lastOp.result) :
       /\ IsZeroVector(FindByText(documents, lastOp.result[r].text).vector)
       /\ lastOp.result[r].score = 0
       /\ lastOp.result[q].score # 0

\* whether a candidate list holds the document of a result entry
Holds(list, entry) ==
  \E i \in 1..Len(list) : list[i].text = entry.text /\ list[i].meta = entry.meta

\* C25: a hybridSearch result carries source "vector+keyword" exactly when
\* its document is in both candidate lists, "vector" exactly when it is in
\* the vector list only, and "keyword" exactly when it is in the keyword
\* list only.
C25_SourceTagsTheListsOfTheDocument ==
  (lastOp.name = "hybridSearch" /\ lastOp.outcome = "ok") =>
    \A r \in 1..Len(lastOp.result) :
      LET entry == lastOp.result[r]
          inVector == Holds(VectorCandidates, entry)
          inKeyword == Holds(KeywordCandidates, entry)
      IN /\ entry.source = <<"vector", "keyword">> <=> (inVector /\ inKeyword)
         /\ entry.source = <<"vector">> <=> (inVector /\ ~inKeyword)
         /\ entry.source = <<"keyword">> <=> (~inVector /\ inKeyword)

\* C26: a maxMarginalRelevanceSearch that was suspended on its embedding
\* request while clear() or addDocuments ran returns what the call returns
\* on the store it began on or on the store it ends on.
C26_SuspendedSearchSeesOneSnapshot ==
  [][ (suspended.active /\ ~suspended'.active /\ lastOp'.provider = "ok")
        => \E snapshot \in {suspended.documents, documents} :
             LET whole == maxMarginalRelevanceSearch(
                            snapshot, embedQuery(suspended.query), suspended.k,
                            suspended.lambda)
             IN lastOp'.outcome = whole.outcome /\ lastOp'.result = whole.result ]_vars

\* C27: getDocumentCount() grows by the size of each successfully added
\* batch, whose documents are appended in the order of the batch, is left
\* alone by a failed addDocuments and by every search, and is 0 after
\* clear(); every vector search on the cleared store returns the empty list.
C27_CountFollowsAddAndClear ==
  [][ /\ (lastOp'.name = "addDocuments" /\ lastOp'.outcome = "ok")
        => /\ getDocumentCount(documents')
                = getDocumentCount(documents) + Len(lastOp'.chunks)
           /\ SubSeq(documents', 1, Len(documents)) = documents
           /\ \A i \in 1..Len(lastOp'.chunks) :
                /\ documents'[Len(documents) + i].id = lastOp'.chunks[i].id
                /\ documents'[Len(documents) + i].text = lastOp'.chunks[i].text
      /\ (lastOp'.name = "addDocuments" /\ lastOp'.outcome = "error")
        => documents' = documents
      /\ lastOp'.name = "clear" => getDocumentCount(documents') = 0
      /\ lastOp'.name \notin {"addDocuments", "clear"}
        => getDocumentCount(documents') = getDocumentCount(documents)
      /\ ( /\ lastOp'.name \in {"similaritySearch", "similaritySearchWithFilter",
                               "maxMarginalRelevanceSearch"}
           /\ getDocumentCount(documents) = 0 )
        => lastOp'.result = <<>> ]_vars

\* a search with k > 0 on a store that was filled and then cleared
C27_Witness ==
  /\ lastOp.name \in {"similaritySearch", "maxMarginalRelevanceSearch"}
  /\ lastOp.outcome = "ok"
  /\ lastOp.k > 0
  /\ getDocumentCount(documents) = 0
  /\ kwDocuments # <<>>
  /\ lastOp.result = <<>>

\* a second batch was added to a store that holds a batch
C27_WitnessCount ==
  /\ lastOp.name = "addDocuments"
  /\ lastOp.outcome = "ok"
  /\ getDocumentCount(documents) = 3
  /\ documents[1].id # kwDocuments[1].id

\* C28: splitIntoChunks terminates for every chunkSize >= 1 and overlap >= 0:
\* every loop iteration moves the chunk start index i forward.
C28_ChunkStartStrictlyIncreases ==
  [][ (chunker.pc = "loop" /\ chunker'.pc = "loop") => chunker'.i > chunker.i ]_vars

\* s without its first n elements
Drop(s, n) == SubSeq(s, n + 1, Len(s))

\* the first chunk followed by every later chunk without its first overlap
\* characters, chunks from to Len
RECURSIVE Rejoin(_, _, _)
Rejoin(chunks, overlap, from) ==
  IF from > Len(chunks) THEN <<>>
  ELSE (IF from = 1 THEN chunks[1] ELSE Drop(chunks[from], overlap))
         \o Rejoin(chunks, overlap, from + 1)

\* C29: for 0 <= overlap < chunkSize the chunks splitIntoChunks returns are
\* each at most chunkSize long, chunk n starts at (n-1) * (chunkSize - overlap)
\* of the text, the first chunk joined with the later chunks stripped of
\* their first overlap characters is the text, and a text no longer than
\* chunkSize gives the single chunk [text].
C29_ChunksRejoinToTheText ==
  (chunker.pc = "done" /\ chunker.overlap < chunker.chunkSize) =>
    /\ \A n \in 1..Len(chunker.chunks) :
         /\ Len(chunker.chunks[n]) <= chunker.chunkSize
         /\ chunker.chunks[n]
              = SubSeq(chunker.text,
                       (n - 1) * (chunker.chunkSize - chunker.overlap) + 1,
                       Min((n - 1) * (chunker.chunkSize - chunker.overlap)
                             + chunker.chunkSize, Len(chunker.text)))
    /\ Rejoin(chunker.chunks, chunker.overlap, 1) = chunker.text
    /\ Len(chunker.text) <= chunker.chunkSize => chunker.chunks = <<chunker.text>>

\* a text of distinct characters was split into several overlapping chunks,
\* the last of them shorter than the overlap
C29_Witness ==
  /\ chunker.pc = "done"
  /\ chunker.overlap > 0
  /\ chunker.overlap < chunker.chunkSize
  /\ Len(chunker.chunks) >= 3
  /\ chunker.text = SubSeq(AllChars, 1, Len(chunker.text))
  /\ Len(chunker.chunks[Len(chunker.chunks)]) < chunker.overlap

\* C30: every result EnterpriseSearchEngine.search returns after initialize()
\* carries the id of the indexed chunk its content came from: its id is a key
\* of documentIndex, whose chunk has the result's content.
C30_ResultIdIsAnIndexedChunkId ==
  (lastOp.name = "search" /\ documentIndex # <<>>) =>
    \A r \in 1..Len(lastOp.result) :
      \E e \in 1..Len(documentIndex) :
        /\ documentIndex[e].key = lastOp.result[r].id
        /\ documentIndex[e].value.text = lastOp.result[r].content

====
